---- MODULE Spec2Model ----
(***************************************************************************)
(* Launch-argument resolution and process-spawn pipeline of RMCLL          *)
(* (src/launcher/mod.rs): find_jre, create, generate_argument_map,         *)
(* to_launch_arguments, start / extract_natives / spawn_new_process, args. *)
(*                                                                         *)
(* Text produced by the runtime probes is a sequence of one-character      *)
(* strings, so that trim and split_whitespace are computed.  Every other   *)
(* string is a TLA+ string.  Option<T> is a sequence of length 0 or 1.     *)
(***************************************************************************)
EXTENDS Integers, Sequences, FiniteSets, TLC

\* ------------------------------------------------------------------ bounds

\* Longest standard output of a runtime probe, in characters.
MaxOut == 3
\* Most argument templates a version declares, per kind (game, JVM).
MaxDeclared == 2

\* ------------------------------------------------------- environment state

VARIABLES
    ua,        \* outcome of `update-alternatives --list java`
    wh,        \* outcome of `which java`
    call,      \* the arguments the caller passes to create()
    store,     \* what the versions/ directory holds for InstalledId
    launcher,  \* Option<MinecraftLauncher>: the value create() returned
    panicked,  \* create() aborted on expect()
    candidates,\* Option<Vec<String>>: what find_jre() returned inside create()
    plan,      \* Option<LaunchArguments>: the last plan to_launch_arguments returned
    result,    \* the return value of the last public call
    trace,     \* collaborator calls of the last public call, in order
    made,      \* names of all collaborator calls made so far
    disk,      \* native files written to the extraction directory
    procs      \* process-creation attempts made so far: [program, argv]

vars == <<ua, wh, call, store, launcher, panicked, candidates, plan, result,
          trace, made, disk, procs>>

envVars == <<ua, wh, call, store>>

\* ---------------------------------------------------------------- strings

Chars == {"a", "b", " "}

IsWhitespace(c) == c \in {" ", "\t", "\n"}

RECURSIVE trim_start(_)
trim_start(s) ==
    IF s # <<>> /\ IsWhitespace(Head(s)) THEN trim_start(Tail(s)) ELSE s

RECURSIVE trim_end(_)
trim_end(s) ==
    IF s # <<>> /\ IsWhitespace(s[Len(s)])
    THEN trim_end(SubSeq(s, 1, Len(s) - 1))
    ELSE s

trim(s) == trim_end(trim_start(s))

\* Length of the longest whitespace-free prefix of s.
RECURSIVE WordLen(_)
WordLen(s) ==
    IF s = <<>> \/ IsWhitespace(Head(s)) THEN 0 ELSE 1 + WordLen(Tail(s))

\* str::split_whitespace: the maximal whitespace-free runs, in order.
RECURSIVE split_whitespace(_)
split_whitespace(s) ==
    LET t == trim_start(s) IN
    IF t = <<>> THEN <<>>
    ELSE LET n == WordLen(t) IN
         <<SubSeq(t, 1, n)>> \o split_whitespace(SubSeq(t, n + 1, Len(t)))

\* All character sequences of length at most n.
RECURSIVE StringsUpTo(_)
StringsUpTo(n) ==
    IF n = 0 THEN {<<>>}
    ELSE LET shorter == StringsUpTo(n - 1) IN
         shorter \cup {Append(s, c) : s \in shorter, c \in Chars}

\* --------------------------------------------------------- runtime locator

\* A probe either cannot be run (Command::output is Err), or runs and writes
\* bytes that are not UTF-8, or runs and writes the text `out`.
Absent == [st |-> "absent", out |-> <<>>]
NonUtf8 == [st |-> "nonutf8", out |-> <<>>]
Ran(text) == [st |-> "ok", out |-> text]

ProbeOutcomes == {Absent, NonUtf8} \cup {Ran(t) : t \in StringsUpTo(MaxOut)}

\* Both `if let Ok(..)` of a probe succeed: the command ran and its stdout
\* decoded as UTF-8.
Decoded(p) == p.st = "ok"

\* One collaborator call and whether it succeeded.
Called(name, ok) == [call |-> name, ok |-> ok]

find_jre(a, w) ==
    IF Decoded(a) THEN split_whitespace(trim(a.out))
    ELSE IF Decoded(w) THEN <<trim(w.out)>>
    ELSE <<>>

\* The commands find_jre runs: `which` only when the first probe fell through.
find_jre_calls(a, w) ==
    IF Decoded(a) THEN <<Called("update-alternatives", TRUE)>>
    ELSE <<Called("update-alternatives", FALSE), Called("which", Decoded(w))>>

\* Vec::pop: the LAST element, if any.
pop(v) == IF v = <<>> THEN <<>> ELSE <<v[Len(v)]>>

\* ------------------------------------------------------------- data model

None == <<>>
Some(x) == <<x>>

Ok(v) == [ok |-> TRUE, val |-> Some(v), err |-> ""]
Err(e) == [ok |-> FALSE, val |-> None, err |-> e]

\* path::PathBuf: its text, whether the text ends with the separator, and
\* whether its bytes are valid UTF-8.
PathBuf(text, sep, valid) == [str |-> text, sep |-> sep, utf8 |-> valid]

\* Path::join of a relative component: a separator is inserted unless the
\* base is empty or already ends with one.
join(p, rel, relSep) ==
    PathBuf(p.str \o (IF p.str = "" \/ p.sep THEN "" ELSE "/") \o rel,
            relSep, p.utf8)

\* Path::to_str().unwrap_or("")
to_str_or_empty(p) == IF p.utf8 THEN p.str ELSE ""

JvmOption(arg) == [name |-> arg]
new_pair(name, arg) == [name |-> name, arg |-> Some(arg)]
new_single(name) == [name |-> name, arg |-> None]

\* Uuid::simple(): the groups of the identifier without the dashes.
RECURSIVE simple(_)
simple(groups) ==
    IF groups = <<>> THEN "" ELSE Head(groups) \o simple(Tail(groups))

Digit(d) ==
    CASE d = 0 -> "0" [] d = 1 -> "1" [] d = 2 -> "2" [] d = 3 -> "3"
      [] d = 4 -> "4" [] d = 5 -> "5" [] d = 6 -> "6" [] d = 7 -> "7"
      [] d = 8 -> "8" [] d = 9 -> "9"

\* format!("{}", n) of an unsigned integer.
RECURSIVE Decimal(_)
Decimal(n) == IF n < 10 THEN Digit(n) ELSE Decimal(n \div 10) \o Digit(n % 10)

DefaultWidth == 854
DefaultHeight == 480

\* ------------------------------------------- collaborators (versions module)

InstalledId == "1.12.2"
MissingId == "1.7.10"

\* versions::VersionManager::new
VersionManager_new(dir) == [dir |-> dir]

\* VersionManager::version_of: the version's metadata, or version-not-found.
version_of(manager, st, id) ==
    IF id = InstalledId THEN Ok(st) ELSE Err("VersionNotFound")

get_natives_path(manager, id) ==
    join(join(manager.dir, id, FALSE), id \o "-natives", FALSE)
get_primary_jar_path(manager, id) ==
    join(join(manager.dir, id, FALSE), id \o ".jar", FALSE)

\* MinecraftVersion::to_native_collection
to_native_collection(version) ==
    IF version.natives_ok THEN Ok(version.natives) ELSE Err("NativeResolution")

\* MinecraftVersion::classpath
classpath(version, libraries_dir) ==
    IF version.classpath_ok
    THEN Ok(to_str_or_empty(join(libraries_dir, "lwjgl.jar", FALSE)) \o ":" \o "client.jar")
    ELSE Err("Classpath")

\* The closure handed to ParameterStrategy::map: the value the map holds for
\* a placeholder, the empty string for a placeholder it does not hold.
strategy(map, s) == IF s \in DOMAIN map THEN map[s] ELSE ""

\* ParameterStrategy::map applied to one template: literal text is kept and
\* each placeholder is replaced by what the lookup function returns for it.
RECURSIVE expand(_, _)
expand(segs, map) ==
    IF segs = <<>> THEN ""
    ELSE LET h == Head(segs) IN
         (IF h.var THEN strategy(map, h.s) ELSE h.s) \o expand(Tail(segs), map)

\* collect_jvm_arguments: appends one option per declared template, in
\* declared order; a malformed template fails the whole collection.
RECURSIVE collect_jvm_arguments(_, _, _)
collect_jvm_arguments(decls, out, map) ==
    IF decls = <<>> THEN Ok(out)
    ELSE LET d == Head(decls) IN
         IF ~d.ok THEN Err("TemplateExpansion")
         ELSE collect_jvm_arguments(Tail(decls),
                                    Append(out, JvmOption(expand(d.segs, map))),
                                    map)

\* collect_game_arguments: one option per declared argument, in declared
\* order: a name alone, or a name with its value.
RECURSIVE collect_game_arguments(_, _, _)
collect_game_arguments(decls, out, map) ==
    IF decls = <<>> THEN Ok(out)
    ELSE LET d == Head(decls) IN
         IF ~d.ok THEN Err("TemplateExpansion")
         ELSE collect_game_arguments(
                  Tail(decls),
                  Append(out,
                         IF d.value = None
                         THEN new_single(expand(d.segs, map))
                         ELSE new_pair(expand(d.segs, map),
                                       expand(d.value[1], map))),
                  map)

\* ------------------------------------------------------------------ create

\* A variant that defers the missing runtime to spawn time: with no candidate
\* it still builds the launcher, with an empty program path.
create_defers_failure(game_dir, game_version_id, game_auth_info, a, w) ==
    LET found == find_jre(a, w)
        picked == IF found = <<>> THEN <<>> ELSE found[Len(found)]
    IN  [ret |-> Some(
             [version_id |-> game_version_id,
              program_path |-> picked,
              assets_dir |-> join(game_dir, "assets/", TRUE),
              libraries_dir |-> join(game_dir, "libraries/", TRUE),
              manager |-> VersionManager_new(join(game_dir, "versions/", TRUE)),
              game_root_dir |-> game_dir,
              launcher_name_version |-> <<"RMCLL", "0.1.0">>,
              auth_info |-> game_auth_info,
              window_resolution |-> <<DefaultWidth, DefaultHeight>>]),
         found |-> found,
         calls |-> find_jre_calls(a, w)
                   \o <<Called("VersionManager::new", TRUE)>>]

\* create(): the struct's fields are evaluated in the order written, so the
\* runtime is located (and expect() may abort) before VersionManager::new.
create(game_dir, game_version_id, game_auth_info, a, w) ==
    LET found == find_jre(a, w)
        picked == pop(found)
    IN  IF picked = None
        THEN [ret |-> None, found |-> found, calls |-> find_jre_calls(a, w)]
        ELSE [ret |-> Some(
                  [version_id |-> game_version_id,
                   program_path |-> picked[1],
                   assets_dir |-> join(game_dir, "assets/", TRUE),
                   libraries_dir |-> join(game_dir, "libraries/", TRUE),
                   manager |-> VersionManager_new(join(game_dir, "versions/", TRUE)),
                   game_root_dir |-> game_dir,
                   launcher_name_version |-> <<"RMCLL", "0.1.0">>,
                   auth_info |-> game_auth_info,
                   window_resolution |-> <<DefaultWidth, DefaultHeight>>]),
              found |-> found,
              calls |-> find_jre_calls(a, w)
                        \o <<Called("VersionManager::new", TRUE)>>]

\* --------------------------------------------------- generate_argument_map

\* A variant that inserts the asset index id only when the version has one.
insert_assets_index_name_if_present(self, version) ==
    IF version.asset_index = None THEN [k \in {} |-> ""]
    ELSE ("assets_index_name" :> version.asset_index[1])

\* map.insert("assets_index_name", asset_index.map(id).unwrap_or_else(String::new))
insert_assets_index_name(self, version) ==
    "assets_index_name" :>
        IF version.asset_index = None THEN "" ELSE version.asset_index[1]

\* map.insert("classpath", classpath(..).unwrap_or_else(|_| String::new()))
insert_classpath(self, version) ==
    "classpath" :>
        LET r == classpath(version, self.libraries_dir)
        IN  IF r.ok THEN r.val[1] ELSE ""

generate_argument_map(self, version) ==
    LET name == self.auth_info.name
        uuid == simple(self.auth_info.uuid)
        access_token == simple(self.auth_info.access_token)
    IN  ("auth_access_token" :> access_token)
     @@ ("user_properties" :> "{}")
     @@ ("user_property_map" :> "{}")
     @@ ("auth_session" :> "token:" \o access_token \o ":" \o uuid)
     @@ ("auth_player_name" :> name)
     @@ ("auth_uuid" :> uuid)
     @@ ("user_type" :> "legacy")
     @@ ("profile_name" :> name)
     @@ ("version_name" :> self.version_id)
     @@ ("game_directory" :> to_str_or_empty(self.game_root_dir))
     @@ ("assets_root" :> to_str_or_empty(self.assets_dir))
     @@ insert_assets_index_name(self, version)
     @@ ("version_type" :> version.version_type)
     @@ ("resolution_width" :> Decimal(self.window_resolution[1]))
     @@ ("resolution_height" :> Decimal(self.window_resolution[2]))
     @@ ("language" :> "en-us")
     @@ ("launcher_name" :> self.launcher_name_version[1])
     @@ ("launcher_version" :> self.launcher_name_version[2])
     @@ ("natives_directory" :>
            to_str_or_empty(get_natives_path(self.manager, self.version_id)))
     @@ ("primary_jar" :>
            to_str_or_empty(get_primary_jar_path(self.manager, self.version_id)))
     @@ insert_classpath(self, version)
     @@ ("classpath_separator" :> ":")

\* ----------------------------------------------------- to_launch_arguments

\* A variant of the baseline with the two heap options exchanged.
BaselineReordered ==
    << "-Xmx2048m",
       "-Xmn128m",
       "-XX:+UseG1GC",
       "-XX:-UseAdaptiveSizePolicy",
       "-XX:-OmitStackTraceInFastThrow",
       "-Dfml.ignoreInvalidMinecraftCertificates=true",
       "-Dfml.ignorePatchDiscrepancies=true" >>

Baseline ==
    << "-Xmn128m",
       "-Xmx2048m",
       "-XX:+UseG1GC",
       "-XX:-UseAdaptiveSizePolicy",
       "-XX:-OmitStackTraceInFastThrow",
       "-Dfml.ignoreInvalidMinecraftCertificates=true",
       "-Dfml.ignorePatchDiscrepancies=true" >>

\* A variant that swallows a failed native resolution (an empty collection
\* instead of `?`) and still returns a plan.
to_launch_arguments_swallows(self, st) ==
    LET found == version_of(self.manager, st, self.version_id)
        c1 == <<Called("version_of", found.ok)>>
    IN  IF ~found.ok THEN [ret |-> Err(found.err), calls |-> c1]
        ELSE
        LET minecraft_version == found.val[1]
            game_natives == to_native_collection(minecraft_version)
            c2 == Append(c1, Called("to_native_collection", game_natives.ok))
            map == generate_argument_map(self, minecraft_version)
            game == collect_game_arguments(minecraft_version.game_arguments,
                                           <<>>, map)
            c3 == Append(c2, Called("collect_game_arguments", game.ok))
        IN  IF ~game.ok THEN [ret |-> Err(game.err), calls |-> c3]
            ELSE
            LET jvm == collect_jvm_arguments(
                           minecraft_version.jvm_arguments,
                           [i \in DOMAIN Baseline |-> JvmOption(Baseline[i])],
                           map)
                c4 == Append(c3, Called("collect_jvm_arguments", jvm.ok))
            IN  IF ~jvm.ok THEN [ret |-> Err(jvm.err), calls |-> c4]
                ELSE [ret |-> Ok([game_natives |->
                                      IF game_natives.ok THEN game_natives.val[1]
                                      ELSE <<>>,
                                  game_native_path |->
                                      PathBuf(map["natives_directory"], FALSE, TRUE),
                                  game_options |-> game.val[1],
                                  jvm_options |-> jvm.val[1],
                                  java_main_class |->
                                      IF minecraft_version.main_class = None THEN ""
                                      ELSE minecraft_version.main_class[1],
                                  java_program_path |-> self.program_path]),
                      calls |-> c4]

to_launch_arguments(self, st) ==
    LET java_program_path == self.program_path
        found == version_of(self.manager, st, self.version_id)
        c1 == <<Called("version_of", found.ok)>>
    IN  IF ~found.ok THEN [ret |-> Err(found.err), calls |-> c1]
        ELSE
        LET minecraft_version == found.val[1]
            java_main_class ==
                IF minecraft_version.main_class = None THEN ""
                ELSE minecraft_version.main_class[1]
            game_natives == to_native_collection(minecraft_version)
            c2 == Append(c1, Called("to_native_collection", game_natives.ok))
        IN  IF ~game_natives.ok THEN [ret |-> Err(game_natives.err), calls |-> c2]
            ELSE
            LET jvm_options == [i \in DOMAIN Baseline |-> JvmOption(Baseline[i])]
                map == generate_argument_map(self, minecraft_version)
                game_native_path == PathBuf(map["natives_directory"], FALSE, TRUE)
                game == collect_game_arguments(minecraft_version.game_arguments,
                                               <<>>, map)
                c3 == Append(c2, Called("collect_game_arguments", game.ok))
            IN  IF ~game.ok THEN [ret |-> Err(game.err), calls |-> c3]
                ELSE
                LET jvm == collect_jvm_arguments(minecraft_version.jvm_arguments,
                                                 jvm_options, map)
                    c4 == Append(c3, Called("collect_jvm_arguments", jvm.ok))
                IN  IF ~jvm.ok THEN [ret |-> Err(jvm.err), calls |-> c4]
                    ELSE [ret |-> Ok([game_natives |-> game_natives.val[1],
                                      game_native_path |-> game_native_path,
                                      game_options |-> game.val[1],
                                      jvm_options |-> jvm.val[1],
                                      java_main_class |-> java_main_class,
                                      java_program_path |-> java_program_path]),
                          calls |-> c4]

\* --------------------------------------------------------- LaunchArguments

program(self) == self.java_program_path

\* The first loop of args(): one token per JVM option.
RECURSIVE push_jvm_options(_, _)
push_jvm_options(res, options) ==
    IF options = <<>> THEN res
    ELSE push_jvm_options(Append(res, Head(options).name), Tail(options))

\* A variant of the second loop that emits a valued option as one token.
RECURSIVE push_game_options_joined(_, _)
push_game_options_joined(res, options) ==
    IF options = <<>> THEN res
    ELSE LET o == Head(options) IN
         push_game_options_joined(
             IF o.arg # None THEN Append(res, o.name \o "=" \o o.arg[1])
             ELSE Append(res, o.name),
             Tail(options))

\* The second loop of args(): the name, then the value when there is one.
RECURSIVE push_game_options(_, _)
push_game_options(res, options) ==
    IF options = <<>> THEN res
    ELSE LET o == Head(options) IN
         push_game_options(
             IF o.arg # None THEN Append(Append(res, o.name), o.arg[1])
             ELSE Append(res, o.name),
             Tail(options))

\* A variant that emits the main class before the JVM options.
args_main_class_first(self) ==
    push_game_options(
        push_jvm_options(<<self.java_main_class>>, self.jvm_options),
        self.game_options)

args(self) ==
    push_game_options(
        Append(push_jvm_options(<<>>, self.jvm_options), self.java_main_class),
        self.game_options)

\* NativeCollection::extract_to: writes the entries in order; the write of
\* entry failAt fails (0: none does) and the files written before it remain.
extract_to(natives, dir, failAt) ==
    LET n == IF failAt = 0 THEN Len(natives) ELSE failAt - 1
        names == {natives[i] : i \in 1..n}
    IN  [ret |-> IF failAt = 0 THEN Ok(SubSeq(natives, 1, n)) ELSE Err("Extraction"),
         written |-> {join(dir, f, FALSE).str : f \in names}]

extract_natives(self, failAt) ==
    extract_to(self.game_natives, self.game_native_path, failAt)

\* Command::new(program).args(args).spawn(): one process-creation attempt.
spawn_new_process(self, canStart) ==
    [ret |-> IF canStart THEN Ok("Child") ELSE Err("Spawn"),
     attempts |-> {[program |-> program(self), argv |-> args(self)]},
     calls |-> <<Called("spawn", canStart)>>]

\* A variant without the `?`: the extraction result is dropped and the
\* process is spawned whatever it was.
start_ignores_extraction(self, failAt, canStart) ==
    LET e == extract_natives(self, failAt)
        sp == spawn_new_process(self, canStart)
    IN  [ret |-> sp.ret, written |-> e.written, attempts |-> sp.attempts,
         calls |-> <<Called("extract_to", e.ret.ok)>> \o sp.calls]

\* start(): `?` returns the extraction error before spawn_new_process runs.
start(self, failAt, canStart) ==
    LET e == extract_natives(self, failAt)
        c1 == <<Called("extract_to", e.ret.ok)>>
    IN  IF ~e.ret.ok
        THEN [ret |-> Err(e.ret.err), written |-> e.written, attempts |-> {},
              calls |-> c1]
        ELSE LET sp == spawn_new_process(self, canStart) IN
             [ret |-> sp.ret, written |-> e.written, attempts |-> sp.attempts,
              calls |-> c1 \o sp.calls]

\* ------------------------------------------------------------ environments

RECURSIVE SeqsUpTo(_, _)
SeqsUpTo(S, n) ==
    IF n = 0 THEN {<<>>}
    ELSE LET shorter == SeqsUpTo(S, n - 1) IN
         shorter \cup {Append(q, x) : q \in shorter, x \in S}

Lit(text) == [var |-> FALSE, s |-> text]
Var(key) == [var |-> TRUE, s |-> key]

\* Argument templates a version may declare; the last of each is malformed.
JvmDecls ==
    { [ok |-> TRUE, segs |-> <<Lit("-Djava.library.path="), Var("natives_directory")>>],
      [ok |-> TRUE, segs |-> <<Lit("-Dbrand="), Var("launcher_brand")>>],
      [ok |-> FALSE, segs |-> <<>>] }

GameDecls ==
    { [ok |-> TRUE, segs |-> <<Lit("--username")>>,
       value |-> Some(<<Var("auth_player_name")>>)],
      [ok |-> TRUE, segs |-> <<Lit("--demo")>>, value |-> None],
      [ok |-> FALSE, segs |-> <<>>, value |-> None] }

Steve ==
    [name |-> "Steve",
     uuid |-> <<"069a79f4", "44e9", "4726", "a5be", "fca90e38aeca">>,
     access_token |-> <<"abc123">>]

Alex ==
    [name |-> "Alex",
     uuid |-> <<"ec561538", "f3fd", "461d", "aff5", "086b22154bce">>,
     access_token |-> <<"0f0f", "beef">>]

HomeDir == PathBuf("/home/user/.minecraft", FALSE, TRUE)
\* A directory whose name is not valid UTF-8: to_str() is None.
RawDir == PathBuf("/home/user/\\xff", FALSE, FALSE)

MainClass == "net.minecraft.client.main.Main"

Version(main, index, type, cpOk, nativesOk, natives, game, jvm) ==
    [main_class |-> main, asset_index |-> index, version_type |-> type,
     classpath_ok |-> cpOk, natives_ok |-> nativesOk, natives |-> natives,
     game_arguments |-> game, jvm_arguments |-> jvm]

Natives == <<"liblwjgl.so", "libopenal.so">>

TheJvmDecl == CHOOSE d \in JvmDecls : d.ok /\ d.segs[2].s = "natives_directory"
ThePairDecl == CHOOSE d \in GameDecls : d.ok /\ d.value # None
TheSingleDecl == CHOOSE d \in GameDecls : d.ok /\ d.value = None

DefaultVersion ==
    Version(Some(MainClass), Some("1.12"), "release", TRUE, TRUE, Natives,
            <<ThePairDecl, TheSingleDecl>>, <<TheJvmDecl>>)

NoResult == [op |-> "none", ok |-> TRUE, val |-> None, err |-> ""]

Ret(op, r) == [op |-> op, ok |-> r.ok, val |-> r.val, err |-> r.err]

Names(calls) == {calls[i].call : i \in DOMAIN calls}

InitProgram ==
    /\ launcher = None
    /\ panicked = FALSE
    /\ candidates = None
    /\ plan = None
    /\ result = NoResult
    /\ trace = <<>>
    /\ made = {}
    /\ disk = {}
    /\ procs = {}

\* The resolution pipeline: the runtime is found; what the version declares,
\* and whether it is installed and its natives resolve, vary.
Init ==
    /\ ua = Absent
    /\ wh = Ran(<<"a">>)
    /\ call \in [game_dir : {HomeDir}, version_id : {InstalledId, MissingId},
                 auth : {Steve}]
    /\ store \in {Version(m, Some("1.12"), "release", TRUE, nOk, Natives, g, j) :
                    m \in {None, Some(MainClass)}, nOk \in BOOLEAN,
                    g \in SeqsUpTo(GameDecls, MaxDeclared),
                    j \in SeqsUpTo(JvmDecls, MaxDeclared)}
    /\ InitProgram

\* The runtime locator: every outcome of the first probe and, where the first
\* probe falls through and `which` is run at all, every outcome of `which`.
InitLocator ==
    /\ ua \in ProbeOutcomes
    /\ wh \in IF Decoded(ua) THEN {Absent} ELSE ProbeOutcomes
    /\ call = [game_dir |-> HomeDir, version_id |-> InstalledId, auth |-> Steve]
    /\ store = DefaultVersion
    /\ InitProgram

\* The variable map: the session, the directory and the version's optional
\* data vary.
InitMap ==
    /\ ua = Absent
    /\ wh = Ran(<<"a">>)
    /\ call \in [game_dir : {HomeDir, RawDir}, version_id : {InstalledId},
                 auth : {Steve, Alex}]
    /\ store \in {Version(m, ix, ty, cpOk, TRUE, Natives,
                          <<ThePairDecl, TheSingleDecl>>, <<TheJvmDecl>>) :
                    m \in {None, Some(MainClass)},
                    ix \in {None, Some("1.12")},
                    ty \in {"release", "snapshot"},
                    cpOk \in BOOLEAN}
    /\ InitProgram

\* ----------------------------------------------------------------- actions

Create ==
    /\ launcher = None
    /\ ~panicked
    /\ LET c == create(call.game_dir, call.version_id, call.auth, ua, wh) IN
       /\ launcher' = c.ret
       /\ panicked' = (c.ret = None)
       /\ candidates' = Some(c.found)
       /\ result' = [op |-> "create", ok |-> c.ret # None, val |-> c.ret,
                     err |-> IF c.ret = None
                             THEN "Java Runtime Environment not found" ELSE ""]
       /\ trace' = c.calls
       /\ made' = made \cup Names(c.calls)
    /\ UNCHANGED <<envVars, plan, disk, procs>>

ToLaunchArguments ==
    /\ launcher # None
    /\ LET r == to_launch_arguments(launcher[1], store) IN
       /\ result' = Ret("to_launch_arguments", r.ret)
       /\ plan' = IF r.ret.ok THEN r.ret.val ELSE plan
       /\ trace' = r.calls
       /\ made' = made \cup Names(r.calls)
    /\ UNCHANGED <<envVars, launcher, panicked, candidates, disk, procs>>

\* generate_argument_map is public; its caller holds a resolved version.
GenerateArgumentMap ==
    /\ launcher # None
    /\ LET v == version_of(launcher[1].manager, store, launcher[1].version_id) IN
       /\ v.ok
       /\ result' = Ret("generate_argument_map",
                        Ok(generate_argument_map(launcher[1], v.val[1])))
       /\ trace' = <<Called("version_of", TRUE)>>
       /\ made' = made \cup {"version_of"}
    /\ UNCHANGED <<envVars, launcher, panicked, candidates, plan, disk, procs>>

Start ==
    /\ plan # None
    /\ \E failAt \in 0..Len(plan[1].game_natives), canStart \in BOOLEAN :
        LET r == start(plan[1], failAt, canStart) IN
        /\ result' = Ret("start", r.ret)
        /\ disk' = disk \cup r.written
        /\ procs' = procs \cup r.attempts
        /\ trace' = r.calls
        /\ made' = made \cup Names(r.calls)
    /\ UNCHANGED <<envVars, launcher, panicked, candidates, plan>>

ExtractNatives ==
    /\ plan # None
    /\ \E failAt \in 0..Len(plan[1].game_natives) :
        LET r == extract_natives(plan[1], failAt) IN
        /\ result' = Ret("extract_natives", r.ret)
        /\ disk' = disk \cup r.written
        /\ trace' = <<Called("extract_to", r.ret.ok)>>
        /\ made' = made \cup {"extract_to"}
    /\ UNCHANGED <<envVars, launcher, panicked, candidates, plan, procs>>

SpawnNewProcess ==
    /\ plan # None
    /\ \E canStart \in BOOLEAN :
        LET r == spawn_new_process(plan[1], canStart) IN
        /\ result' = Ret("spawn_new_process", r.ret)
        /\ procs' = procs \cup r.attempts
        /\ trace' = r.calls
        /\ made' = made \cup Names(r.calls)
    /\ UNCHANGED <<envVars, launcher, panicked, candidates, plan, disk>>

Args ==
    /\ plan # None
    /\ result' = Ret("args", Ok(args(plan[1])))
    /\ trace' = <<>>
    /\ UNCHANGED <<envVars, launcher, panicked, candidates, plan, made, disk, procs>>

Next ==
    \/ Create
    \/ ToLaunchArguments
    \/ GenerateArgumentMap
    \/ Start
    \/ ExtractNatives
    \/ SpawnNewProcess
    \/ Args

Spec == Init /\ [][Next]_vars
SpecLocator == InitLocator /\ [][Next]_vars
SpecMap == InitMap /\ [][Next]_vars

\* ------------------------------------------------------------------ claims

\* C1: under start(), extract_natives runs to completion before
\* spawn_new_process is attempted; when extraction fails, start returns that
\* error, the extraction is the only call it made and no process-creation
\* attempt is added.
StartExtractsBeforeSpawn ==
    [][result'.op = "start" =>
         /\ trace' # <<>>
         /\ trace'[1].call = "extract_to"
         /\ \A i \in DOMAIN trace' :
                trace'[i].call = "spawn" => (i = 2 /\ trace'[1].ok)
         /\ ~trace'[1].ok =>
                /\ ~result'.ok
                /\ result'.err = "Extraction"
                /\ result'.val = None
                /\ Len(trace') = 1
                /\ procs' = procs]_vars

StartStoppedAtFailedExtraction ==
    /\ result.op = "start"
    /\ ~result.ok
    /\ trace = <<Called("extract_to", FALSE)>>

\* C2: when find_jre returns one or more candidates, create() stores the
\* first of them as the program path of the launcher, and so of every plan.
CreateStoresFirstCandidate ==
    (launcher # None /\ candidates # None /\ candidates[1] # <<>>) =>
        /\ launcher[1].program_path = Head(candidates[1])
        /\ plan # None => plan[1].java_program_path = Head(candidates[1])

\* What the code does where C2 speaks of the first candidate: Vec::pop takes
\* the last one.
CreateStoresLastCandidate ==
    (launcher # None /\ candidates # None /\ candidates[1] # <<>>) =>
        /\ launcher[1].program_path = candidates[1][Len(candidates[1])]
        /\ plan # None =>
               plan[1].java_program_path = candidates[1][Len(candidates[1])]

\* A probe yields a usable runtime path: it ran, decoded, and wrote more
\* than whitespace.
Usable(p) == Decoded(p) /\ trim(p.out) # <<>>

\* C3: whenever neither probe yields a usable runtime path, find_jre returns
\* a sequence with zero candidates.
LocatorEmptyWhenNothingUsable ==
    (candidates # None /\ ~Usable(ua) /\ ~Usable(wh)) => candidates[1] = <<>>

\* C4: when find_jre returns no candidates, create() aborts with
\* runtime-not-found: no launcher and no plan exist, the version manager was
\* never constructed or consulted, nothing was extracted and nothing spawned.
NoRuntimeFailsConstruction ==
    (candidates # None /\ candidates[1] = <<>>) =>
        /\ panicked
        /\ launcher = None
        /\ plan = None
        /\ result.op = "create"
        /\ ~result.ok
        /\ result.val = None
        /\ result.err = "Java Runtime Environment not found"
        /\ made \subseteq {"update-alternatives", "which"}
        /\ disk = {}
        /\ procs = {}

CreatePanickedWithoutRuntime ==
    /\ panicked
    /\ candidates = Some(<<>>)
    /\ result.op = "create"

Malformed(decls) == \E i \in DOMAIN decls : ~decls[i].ok

\* The failure the environment holds for to_launch_arguments, if any.
ExpectedFailure ==
    IF call.version_id # InstalledId THEN "VersionNotFound"
    ELSE IF ~store.natives_ok THEN "NativeResolution"
    ELSE IF Malformed(store.game_arguments) \/ Malformed(store.jvm_arguments)
         THEN "TemplateExpansion"
    ELSE ""

\* C5: when the version is not found, its natives do not resolve or one of
\* its templates does not expand, to_launch_arguments returns the error of
\* that failure and no plan, and nothing is extracted or spawned.
ResolutionFailureReturnsNoPlan ==
    ExpectedFailure # "" =>
        /\ plan = None
        /\ disk = {}
        /\ procs = {}
        /\ made \cap {"extract_to", "spawn"} = {}
        /\ result.op = "to_launch_arguments" =>
               /\ ~result.ok
               /\ result.err = ExpectedFailure
               /\ result.val = None

ResolutionFailedOnTemplate ==
    /\ result.op = "to_launch_arguments"
    /\ ~result.ok
    /\ result.err = "TemplateExpansion"
    /\ Malformed(store.jvm_arguments)

\* C6: the JVM options of every plan start with the seven baseline options
\* in their fixed order, followed by the version-declared options in
\* declared order.
BaselinePrefixesJvmOptions ==
    plan # None =>
        LET opts == plan[1].jvm_options
            declared == store.jvm_arguments
            map == generate_argument_map(launcher[1], store)
        IN  /\ Len(opts) = 7 + Len(declared)
            /\ opts[1].name = "-Xmn128m"
            /\ opts[2].name = "-Xmx2048m"
            /\ opts[3].name = "-XX:+UseG1GC"
            /\ opts[4].name = "-XX:-UseAdaptiveSizePolicy"
            /\ opts[5].name = "-XX:-OmitStackTraceInFastThrow"
            /\ opts[6].name = "-Dfml.ignoreInvalidMinecraftCertificates=true"
            /\ opts[7].name = "-Dfml.ignorePatchDiscrepancies=true"
            /\ \A i \in DOMAIN declared :
                   opts[7 + i].name = expand(declared[i].segs, map)

PlanWithTwoDeclaredJvmOptions ==
    /\ plan # None
    /\ Len(store.jvm_arguments) >= 2
    /\ store.jvm_arguments[1] # store.jvm_arguments[2]
    /\ Len(plan[1].jvm_options) >= 9

\* The tokens of a sequence of game options: each name, followed by its value
\* when it has one.
RECURSIVE GameTokens(_)
GameTokens(options) ==
    IF options = <<>> THEN <<>>
    ELSE <<Head(options).name>> \o Head(options).arg \o GameTokens(Tail(options))

IsArgv(a, p) ==
    LET n == Len(p.jvm_options) IN
    /\ Len(a) >= n + 1
    /\ \A i \in 1..n : a[i] = p.jvm_options[i].name
    /\ a[n + 1] = p.java_main_class
    /\ SubSeq(a, n + 2, Len(a)) = GameTokens(p.game_options)

\* C7: args() is the JVM options in stored order, then the main class as one
\* token, then the game options in stored order; and every process-creation
\* attempt was given exactly that vector, with the plan's program.
ArgsOrdersJvmMainGame ==
    plan # None =>
        /\ result.op = "args" => IsArgv(result.val[1], plan[1])
        /\ \A pr \in procs :
               /\ IsArgv(pr.argv, plan[1])
               /\ pr.program = plan[1].java_program_path

ArgsAndSpawnOfFullPlan ==
    /\ result.op = "args"
    /\ procs # {}
    /\ Len(plan[1].game_options) > 0
    /\ Len(plan[1].jvm_options) > 7

\* Number of the first n options that carry a value.
Valued(options, n) == Cardinality({j \in 1..n : options[j].arg # None})

\* C8: in args(), a game option with a value contributes two consecutive
\* tokens (name, value) and one without contributes one; the length of
\* args() is #jvm + 1 + #game + #game-with-value.
GameOptionTokenCounts ==
    (plan # None /\ result.op = "args") =>
        LET a == result.val[1]
            g == plan[1].game_options
            base == Len(plan[1].jvm_options) + 1
        IN  /\ Len(a) = base + Len(g) + Valued(g, Len(g))
            /\ \A i \in DOMAIN g :
                   LET at == base + (i - 1) + Valued(g, i - 1) + 1 IN
                   /\ a[at] = g[i].name
                   /\ g[i].arg # None => a[at + 1] = g[i].arg[1]
                   /\ g[i].arg = None =>
                          (i < Len(g) => a[at + 1] = g[i + 1].name)

ArgsOfValuedAndBareOptions ==
    /\ result.op = "args"
    /\ \E i, j \in DOMAIN plan[1].game_options :
           /\ plan[1].game_options[i].arg # None
           /\ plan[1].game_options[j].arg = None

PlaceholderNames ==
    { "auth_access_token", "user_properties", "user_property_map",
      "auth_session", "auth_player_name", "auth_uuid", "user_type",
      "profile_name", "version_name", "game_directory", "assets_root",
      "assets_index_name", "version_type", "resolution_width",
      "resolution_height", "language", "launcher_name", "launcher_version",
      "natives_directory", "primary_jar", "classpath", "classpath_separator" }

\* C9: the map generate_argument_map returns has exactly the 22 placeholder
\* names as keys; a missing asset index and a failed classpath computation
\* give the empty string under their keys.
ArgumentMapHasAllKeys ==
    result.op = "generate_argument_map" =>
        LET m == result.val[1] IN
        /\ Cardinality(PlaceholderNames) = 22
        /\ DOMAIN m = PlaceholderNames
        /\ store.asset_index = None => m["assets_index_name"] = ""
        /\ ~store.classpath_ok => m["classpath"] = ""

ArgumentMapOfBareVersion ==
    /\ result.op = "generate_argument_map"
    /\ store.asset_index = None
    /\ ~store.classpath_ok

====
